---- MODULE Spec2Model ----
(***************************************************************************)
(* Model of src/hugging_face_scraping.py (class HuggingFaceScraper).       *)
(*                                                                         *)
(* Strings are TLA+ strings handled character by character (Len, SubSeq,   *)
(* \o), so that split, count, startswith, replace and strip are computed   *)
(* the way Python computes them.  The absent marker None of a failed       *)
(* fetch is the record None, never a string.                               *)
(***************************************************************************)
EXTENDS Integers, Sequences, FiniteSets, TLC

VARIABLES
    input,          \* argument of the function under study (function-level specifications)
    output,         \* its result, Unset until the function has been applied
    pc,             \* position of run(): the statement it executes next
    idx,            \* position of the running pass in the list it iterates over
    cache,          \* run's cache dictionary (line 553): URL -> markup or None
    fetch_log,      \* the URLs handed to fetch_html_content, in call order
    error_log,      \* the logging.error records, in order
    planner_base_html, \* line 147: the planner's own base_html_content, Unset before
    href_values,    \* line 560: the listing URLs the planner returned
    model_names,    \* line 563
    model_repo,     \* line 564
    model_addresses, \* line 565
    model_urls,     \* line 567
    extract_model_cards,  \* line 568
    scrape_github_links,  \* line 569
    scrape_category_tags, \* line 570
    rows,           \* line 583: the rows handed to save_to_csv
    saved,          \* save_to_csv wrote the header and the rows
    raised          \* the exception that left run(), "" when none did

fvars == <<input, output>>

rvars == <<pc, idx, cache, fetch_log, error_log, planner_base_html, href_values, model_names, model_repo,
           model_addresses, model_urls, extract_model_cards, scrape_github_links,
           scrape_category_tags, rows, saved, raised>>

vars == <<fvars, rvars>>

Unset == [kind |-> "unset"]

\* None: the absent marker returned by fetch_html_content on failure
None == [kind |-> "None"]

\* ---------------------------------------------------------------------------
\* Bounds
\* ---------------------------------------------------------------------------
MaxHrefLen == 4      \* longest model link drawn in SpecLinks
MaxAnchors == 2      \* most anchors on a page drawn in SpecTags
MaxP == 11           \* largest page number a pagination link names in SpecPlanner
MaxBatch == 3        \* largest batch_size drawn in SpecPlanner
MaxItems == 2        \* most pagination items on a page drawn in SpecPlanner
MaxLinks == 3        \* most model-link blocks on the first listing page in Spec
MaxCalls == 4        \* most get_or_cache_html calls on one cache in SpecCache

\* ---------------------------------------------------------------------------
\* Python string primitives
\* ---------------------------------------------------------------------------
Min(a, b) == IF a < b THEN a ELSE b

Last(seq) == seq[Len(seq)]

\* s.startswith(p)
StartsWith(s, p) == Len(s) >= Len(p) /\ SubSeq(s, 1, Len(p)) = p

\* p in s
Contains(s, p) == \E i \in 1..(Len(s) - Len(p) + 1) : SubSeq(s, i, i + Len(p) - 1) = p

\* s.count(c) for a one-character c
RECURSIVE Count(_, _)
Count(s, c) ==
    IF Len(s) = 0 THEN 0
    ELSE (IF Head(s) = c THEN 1 ELSE 0) + Count(Tail(s), c)

\* position of the first occurrence of p in s at or after position i, 0 if none
RECURSIVE Find(_, _, _)
Find(s, p, i) ==
    IF i + Len(p) - 1 > Len(s) THEN 0
    ELSE IF SubSeq(s, i, i + Len(p) - 1) = p THEN i
    ELSE Find(s, p, i + 1)

\* s.split(c): the pieces between the occurrences of c, empty pieces kept
RECURSIVE Split(_, _)
Split(s, c) ==
    LET k == Find(s, c, 1)
    IN  IF k = 0 THEN <<s>>
        ELSE <<SubSeq(s, 1, k - 1)>> \o Split(SubSeq(s, k + Len(c), Len(s)), c)

\* ---------------------------------------------------------------------------
\* Link Extractor: what the listing passes derive from one model link
\* ---------------------------------------------------------------------------
\* scrape_model_names, line 213
ModelNameNoGuard(href) == Last(Split(href, "/"))

ModelName(href) ==
    IF Count(href, "/") >= 2 THEN Last(Split(href, "/")) ELSE " "

\* scrape_model_repositories, line 246: href.split('/')[1] raises IndexError
\* when the link has no '/'
RepoRaises(href) == Len(Split(href, "/")) < 2

ModelRepo(href) == Split(href, "/")[2]

\* ---------------------------------------------------------------------------
\* Tag Categorizer (scrape_category_tags, lines 459-492)
\* ---------------------------------------------------------------------------
\* An element is a record [has_href, href, text]; has_href says whether the
\* destination attribute is among its attributes.
\* a_tag.get('href', ''), line 462
AnchorHref(a) == IF a.has_href THEN a.href ELSE ""

\* the if/elif chain of lines 465-481; "skip" is the continue of line 481
HeadingNoArxiv(href) ==
    IF StartsWith(href, "/models?pipeline_tag=") THEN "Task"
    ELSE IF StartsWith(href, "/models?library=") THEN "Library"
    ELSE IF StartsWith(href, "/models?language=") THEN "Language"
    ELSE IF StartsWith(href, "/models?other=") THEN "Others"
    ELSE IF StartsWith(href, "/models?license=license%3A") THEN "License"
    ELSE IF StartsWith(href, "/models?dataset=dataset%3A") THEN "Dataset"
    ELSE "skip"

Heading(href) ==
    IF StartsWith(href, "/models?pipeline_tag=") THEN "Task"
    ELSE IF StartsWith(href, "/models?library=") THEN "Library"
    ELSE IF StartsWith(href, "/models?language=") THEN "Language"
    ELSE IF StartsWith(href, "/models?other=")
         THEN (IF Contains(href, "=arxiv%") THEN "Arxiv" ELSE "Others")
    ELSE IF StartsWith(href, "/models?license=license%3A") THEN "License"
    ELSE IF StartsWith(href, "/models?dataset=dataset%3A") THEN "Dataset"
    ELSE "skip"

Whitespace == {" ", "\n", "\t"}

\* s.strip()
RECURSIVE LStrip(_)
LStrip(s) ==
    IF Len(s) > 0 /\ Head(s) \in Whitespace THEN LStrip(Tail(s)) ELSE s

RECURSIVE RStrip(_)
RStrip(s) ==
    IF Len(s) > 0 /\ SubSeq(s, Len(s), Len(s)) \in Whitespace
    THEN RStrip(SubSeq(s, 1, Len(s) - 1))
    ELSE s

Strip(s) == RStrip(LStrip(s))

\* s.replace(old, ''): every non-overlapping occurrence, leftmost first
RECURSIVE RemoveAll(_, _)
RemoveAll(s, old) ==
    LET k == Find(s, old, 1)
    IN  IF k = 0 THEN s
        ELSE SubSeq(s, 1, k - 1) \o RemoveAll(SubSeq(s, k + Len(old), Len(s)), old)

\* lines 483-488
TagText(heading, text) ==
    LET stripped == Strip(text)
        oneline  == RemoveAll(stripped, "\n")
    IN  IF heading = "License" THEN RemoveAll(oneline, "License: ") ELSE oneline

Categories == {"Task", "Library", "Language", "Others", "Arxiv", "License", "Dataset"}

\* line 459
EmptyCategoryItems == [c \in Categories |-> <<>>]

\* the loop of lines 461-489 over the anchors of one page, in document order
RECURSIVE CategorizeFrom(_, _)
CategorizeFrom(a_tags, category_items) ==
    IF a_tags = <<>> THEN category_items
    ELSE LET a_tag   == Head(a_tags)
             heading == Heading(AnchorHref(a_tag))
         IN  IF heading = "skip"
             THEN CategorizeFrom(Tail(a_tags), category_items)
             ELSE CategorizeFrom(Tail(a_tags),
                      [category_items EXCEPT
                          ![heading] = Append(@, TagText(heading, a_tag.text))])

CategorizePage(a_tags) == CategorizeFrom(a_tags, EmptyCategoryItems)

\* ---------------------------------------------------------------------------
\* Pagination Planner (generate_model_page_urls_with_pagination, lines 145-177)
\* ---------------------------------------------------------------------------
\* A page's markup is a record [li, blocks, a_tags, main, pip_links]:
\*   li        the <li class="hidden sm:block"> items, each [has_a, has_href, href]
\*   blocks    the class="block p-2" elements, each [has_href, href, text]
\*   a_tags    the other <a> elements, each [has_href, href, text]
\*   main      [present, regions], the <main class="flex flex-1 flex-col"> element
\*   pip_links what the regular expression of line 338 captures in the text

\* line 550
base_url == "https://huggingface.co/models"

\* line 310
Origin == "https://huggingface.co"

\* line 172: href_values[:3]
ReturnedPages == 3

\* line 560
DefaultBatchSize == 50

\* urlparse(last_href).query, line 160: what follows the first '?'
Query(href) ==
    LET k == Find(href, "?", 1)
    IN  IF k = 0 THEN "" ELSE SubSeq(href, k + 1, Len(href))

\* parse_qs(query).get('p'), line 161-162: the values of the name=value pairs
\* named p, pairs without '=' or with an empty value dropped
RECURSIVE PValues(_)
PValues(pairs) ==
    IF pairs = <<>> THEN <<>>
    ELSE LET nv == Head(pairs)
             k  == Find(nv, "=", 1)
         IN  (IF k # 0 /\ SubSeq(nv, 1, k - 1) = "p" /\ k < Len(nv)
              THEN <<SubSeq(nv, k + 1, Len(nv))>> ELSE <<>>)
             \o PValues(Tail(pairs))

Digits == {"0", "1", "2", "3", "4", "5", "6", "7", "8", "9"}

DigitValue(c) ==
    CASE c = "0" -> 0 [] c = "1" -> 1 [] c = "2" -> 2 [] c = "3" -> 3
      [] c = "4" -> 4 [] c = "5" -> 5 [] c = "6" -> 6 [] c = "7" -> 7
      [] c = "8" -> 8 [] c = "9" -> 9

IsDigits(s) == Len(s) > 0 /\ \A i \in 1..Len(s) : SubSeq(s, i, i) \in Digits

RECURSIVE DigitsValue(_, _)
DigitsValue(s, acc) ==
    IF Len(s) = 0 THEN acc
    ELSE DigitsValue(Tail(s), 10 * acc + DigitValue(Head(s)))

\* int(text), line 162: an optional sign and decimal digits, ValueError otherwise
IsInt(s) ==
    \/ IsDigits(s)
    \/ Len(s) > 1 /\ Head(s) \in {"+", "-"} /\ IsDigits(Tail(s))

IntOf(s) ==
    IF Head(s) = "-" THEN 0 - DigitsValue(Tail(s), 0)
    ELSE IF Head(s) = "+" THEN DigitsValue(Tail(s), 0)
    ELSE DigitsValue(s, 0)

\* lines 160-162: [ok, value]; ok is FALSE when int() raises ValueError
MaxPageStrict(last_href) ==
    LET values == PValues(Split(Query(last_href), "&"))
    IN  IF values = <<>> THEN [ok |-> FALSE, value |-> 0]
        ELSE IF IsInt(values[1]) THEN [ok |-> TRUE, value |-> IntOf(values[1])]
        ELSE [ok |-> FALSE, value |-> 0]

MaxPage(last_href) ==
    LET values == PValues(Split(Query(last_href), "&"))
    IN  IF values = <<>> THEN [ok |-> TRUE, value |-> 0]
        ELSE IF IsInt(values[1]) THEN [ok |-> TRUE, value |-> IntOf(values[1])]
        ELSE [ok |-> FALSE, value |-> 0]

\* line 169: urljoin(base_url, f'?p={page_number}&sort=trending')
PageUrl(base, page_number) ==
    base \o "?p=" \o ToString(page_number) \o "&sort=trending"

\* lines 166-170: the batches of batch_size pages from batch_start on
RECURSIVE Batches(_, _, _, _)
Batches(base, batch_start, max_page, batch_size) ==
    IF batch_start >= max_page + 1 THEN <<>>
    ELSE LET batch_end == Min(batch_start + batch_size, max_page + 1)
         IN  [i \in 1..(batch_end - batch_start) |-> PageUrl(base, batch_start + i - 1)]
             \o Batches(base, batch_start + batch_size, max_page, batch_size)

\* line 172
TruncateTwo(page_urls) == SubSeq(page_urls, 1, Min(2, Len(page_urls)))

Truncate(page_urls) == SubSeq(page_urls, 1, Min(ReturnedPages, Len(page_urls)))

\* the exception handler of lines 174-177: log and return []
PlannerFailed(exception) ==
    [href_values |-> <<>>, all |-> <<>>, error |-> exception]

\* The planner on the outcome of its fetch of the base page (line 147):
\* href_values is what it returns, all is the list before line 172 cuts it,
\* error is the exception logged at line 176 ("" when none was raised).
Planner(base, batch_size, base_html_content) ==
    IF base_html_content = None
    THEN [href_values |-> <<>>, all |-> <<>>, error |-> ""]
    ELSE LET li_elements == base_html_content.li
         IN  IF li_elements = <<>> THEN PlannerFailed("IndexError")
             ELSE IF ~Last(li_elements).has_a THEN PlannerFailed("TypeError")
             ELSE IF ~Last(li_elements).has_href THEN PlannerFailed("KeyError")
             ELSE LET max_page == MaxPage(Last(li_elements).href)
                  IN  IF ~max_page.ok THEN PlannerFailed("ValueError")
                      ELSE IF batch_size = 0 THEN PlannerFailed("ValueError")
                      ELSE LET all == Batches(base, 0, max_page.value, batch_size)
                           IN  [href_values |-> Truncate(all), all |-> all, error |-> ""]

\* ---------------------------------------------------------------------------
\* Link Extractor over one listing page (lines 207-210, 240-243, 276-280, 307-310)
\* ---------------------------------------------------------------------------
RECURSIVE PageLinksReversed(_)
PageLinksReversed(elements) ==
    IF elements = <<>> THEN <<>>
    ELSE PageLinksReversed(Tail(elements))
         \o (IF Head(elements).has_href THEN <<Head(elements).href>> ELSE <<>>)

\* [element['href'] for element in elements if 'href' in element.attrs]
RECURSIVE PageLinks(_)
PageLinks(elements) ==
    IF elements = <<>> THEN <<>>
    ELSE (IF Head(elements).has_href THEN <<Head(elements).href>> ELSE <<>>)
         \o PageLinks(Tail(elements))

\* line 213
PageNames(response_text) ==
    LET hrefs == PageLinks(response_text.blocks)
    IN  [k \in 1..Len(hrefs) |-> ModelName(hrefs[k])]

\* line 246: some link of the page makes split('/')[1] raise
PageRepoRaises(response_text) ==
    \E k \in 1..Len(PageLinks(response_text.blocks)) :
        RepoRaises(PageLinks(response_text.blocks)[k])

PageRepos(response_text) ==
    LET hrefs == PageLinks(response_text.blocks)
    IN  [k \in 1..Len(hrefs) |-> ModelRepo(hrefs[k])]

\* line 280
PageAddresses(response_text) == PageLinks(response_text.blocks)

\* line 310
PageModelUrls(response_text) ==
    LET hrefs == PageLinks(response_text.blocks)
    IN  [k \in 1..Len(hrefs) |-> Origin \o hrefs[k]]

\* ---------------------------------------------------------------------------
\* Model Record Extractor over one detail page
\* ---------------------------------------------------------------------------
\* separator.join(pieces)
RECURSIVE Join(_, _)
Join(pieces, separator) ==
    IF pieces = <<>> THEN ""
    ELSE IF Len(pieces) = 1 THEN pieces[1]
    ELSE pieces[1] \o separator \o Join(Tail(pieces), separator)

\* element.extract() on the first region of one kind (main_element.find
\* returns the first match), lines 395-417
RECURSIVE WithoutFirst(_, _)
WithoutFirst(regions, kind) ==
    IF regions = <<>> THEN <<>>
    ELSE IF Head(regions).kind = kind THEN Tail(regions)
    ELSE <<Head(regions)>> \o WithoutFirst(Tail(regions), kind)

ChromeRemoved(regions) ==
    WithoutFirst(WithoutFirst(WithoutFirst(WithoutFirst(regions,
        "header"), "sidebar_div"), "sidebar_section"), "cta")

\* line 422: [line.strip() for line in text.splitlines() if line.strip()]
RECURSIVE CleanLines(_)
CleanLines(lines) ==
    IF lines = <<>> THEN <<>>
    ELSE (IF Strip(Head(lines)) # "" THEN <<Strip(Head(lines))>> ELSE <<>>)
         \o CleanLines(Tail(lines))

\* lines 420-425 on the regions left in <main>
CleanedText(regions) ==
    LET kept == ChromeRemoved(regions)
        extracted_text == Join([k \in 1..Len(kept) |-> kept[k].text], " ")
    IN  Join(CleanLines(Split(extracted_text, "\n")), " ")

\* lines 385-428: what one page adds to all_texts
PageCardsPlaceholder(response_text) ==
    IF response_text.main.present
    THEN <<CleanedText(response_text.main.regions)>>
    ELSE <<"">>

PageCards(response_text) ==
    IF response_text.main.present
    THEN <<CleanedText(response_text.main.regions)>>
    ELSE <<>>

Range(seq) == {seq[k] : k \in 1..Len(seq)}

\* lines 338-354: the set unique_github_links of one page; line 357 joins it
\* in the iteration order of the set, which the model leaves as the set
PageGithubLinks(response_text) ==
    Range(response_text.pip_links)
        \cup {a.href : a \in {b \in Range(response_text.a_tags) :
                 /\ b.has_href
                 /\ \/ StartsWith(b.href, "https://github.com/")
                    \/ StartsWith(b.href, "http://github.com/")}}

\* ---------------------------------------------------------------------------
\* Aggregator (run, lines 572-583)
\* ---------------------------------------------------------------------------
MinOf(S) == CHOOSE m \in S : \A n \in S : m <= n

\* zip(range(1, len(model_names) + 1), ...): as long as the shortest list
RowsFromZero(names, repo, addresses, urls, tags, github, cards) ==
    LET R == MinOf({Len(names), Len(repo), Len(addresses), Len(urls), Len(tags),
                    Len(github), Len(cards)})
    IN  [k \in 1..R |->
            [index |-> k - 1, name |-> names[k], repo |-> repo[k],
             address |-> addresses[k], url |-> urls[k],
             Task |-> Join(tags[k]["Task"], ", "),
             Library |-> Join(tags[k]["Library"], ", "),
             Dataset |-> Join(tags[k]["Dataset"], ", "),
             Language |-> Join(tags[k]["Language"], ", "),
             Others |-> Join(tags[k]["Others"], ", "),
             Arxiv |-> Join(tags[k]["Arxiv"], ", "),
             License |-> Join(tags[k]["License"], ", "),
             githubLinks |-> github[k], description |-> cards[k]]]

Rows(names, repo, addresses, urls, tags, github, cards) ==
    LET R == MinOf({Len(names), Len(repo), Len(addresses), Len(urls), Len(tags),
                    Len(github), Len(cards)})
    IN  [k \in 1..R |->
            [index |-> k, name |-> names[k], repo |-> repo[k],
             address |-> addresses[k], url |-> urls[k],
             Task |-> Join(tags[k]["Task"], ", "),
             Library |-> Join(tags[k]["Library"], ", "),
             Dataset |-> Join(tags[k]["Dataset"], ", "),
             Language |-> Join(tags[k]["Language"], ", "),
             Others |-> Join(tags[k]["Others"], ", "),
             Arxiv |-> Join(tags[k]["Arxiv"], ", "),
             License |-> Join(tags[k]["License"], ", "),
             githubLinks |-> github[k], description |-> cards[k]]]

\* ---------------------------------------------------------------------------
\* The site: the markup a successful requests.get may return for a URL
\* ---------------------------------------------------------------------------
SeqsUpTo(S, n) == UNION {[1..k -> S] : k \in 0..n}

NoMain == [present |-> FALSE, regions |-> <<>>]

\* a page that carries pagination items only
PaginationPage(li) ==
    [li |-> li, blocks |-> <<>>, a_tags |-> <<>>, main |-> NoMain, pip_links |-> <<>>]

PaginationHref(P) == "/models?p=" \o ToString(P) \o "&sort=trending"

PaginationItem(href) == [has_a |-> TRUE, has_href |-> TRUE, href |-> href]

\* a page that carries model-link blocks only
ListingPage(blocks) ==
    [li |-> <<>>, blocks |-> blocks, a_tags |-> <<>>, main |-> NoMain, pip_links |-> <<>>]

LinkElement(href) == [has_href |-> TRUE, href |-> href, text |-> ""]

NoHrefElement == [has_href |-> FALSE, href |-> "", text |-> ""]

Anchor(href, text) == [has_href |-> TRUE, href |-> href, text |-> text]

\* a model page with a card, chrome around it, tags and repository links
CardPage(url) ==
    [li |-> <<>>, blocks |-> <<>>,
     a_tags |-> << Anchor("/models?pipeline_tag=text-generation", "Text Generation"),
                   Anchor("/models?license=license%3Amit", "License: MIT"),
                   Anchor("https://github.com/a/b", "code") >>,
     main |-> [present |-> TRUE,
               regions |-> << [kind |-> "header", text |-> "Header"],
                              [kind |-> "content", text |-> "  card of " \o url \o "\n\n usage "],
                              [kind |-> "sidebar_div", text |-> "Downloads"],
                              [kind |-> "cta", text |-> "Edit"] >>],
     pip_links |-> <<"https://github.com/a/b">>]

\* a model page without the <main> element
BarePage ==
    [li |-> <<>>, blocks |-> <<>>,
     a_tags |-> <<Anchor("/models?library=pytorch", "PyTorch")>>,
     main |-> NoMain, pip_links |-> <<>>]

BasePages ==
    { PaginationPage(<<>>),
      PaginationPage(<<PaginationItem(PaginationHref(1))>>),
      PaginationPage(<<PaginationItem(PaginationHref(1)), PaginationItem(PaginationHref(5))>>) }

FirstPageElements ==
    { NoHrefElement, LinkElement("/alice/m1"), LinkElement("/bob/m2"), LinkElement("m3") }

LaterPageBlocks == { <<>>, <<LinkElement("/bob/m2")>>, <<LinkElement("/models")>> }

Responses(url) ==
    {None} \cup
        (IF url = base_url THEN BasePages
         ELSE IF url = PageUrl(base_url, 0)
              THEN {ListingPage(b) : b \in SeqsUpTo(FirstPageElements, MaxLinks)}
         ELSE IF url \in {PageUrl(base_url, n) : n \in 1..(ReturnedPages - 1)}
              THEN {ListingPage(b) : b \in LaterPageBlocks}
         ELSE {CardPage(url), BarePage})

\* ---------------------------------------------------------------------------
\* Markup Cache (get_or_cache_html, lines 120-125; fetch_html_content, 88-101)
\* ---------------------------------------------------------------------------
FetchError(url) == [source |-> "fetch_html_content", about |-> url]

\* what a call for url may return: the cached value, or what the fetch yields
Lookup(url) == IF url \in DOMAIN cache THEN {cache[url]} ELSE Responses(url)

\* the call get_or_cache_html(url, cache) that returns html_content
get_or_cache_html_retry_absent(url, html_content) ==
    IF url \in DOMAIN cache /\ cache[url] # None
    THEN /\ html_content = cache[url]
         /\ UNCHANGED <<cache, fetch_log, error_log>>
    ELSE /\ cache' = (url :> html_content) @@ cache
         /\ fetch_log' = Append(fetch_log, url)
         /\ error_log' = IF html_content = None
                         THEN Append(error_log, FetchError(url))
                         ELSE error_log

get_or_cache_html_no_store(url, html_content) ==
    IF url \in DOMAIN cache
    THEN /\ html_content = cache[url]
         /\ UNCHANGED <<cache, fetch_log, error_log>>
    ELSE /\ cache' = cache
         /\ fetch_log' = Append(fetch_log, url)
         /\ error_log' = IF html_content = None
                         THEN Append(error_log, FetchError(url))
                         ELSE error_log

get_or_cache_html(url, html_content) ==
    IF url \in DOMAIN cache
    THEN /\ html_content = cache[url]
         /\ UNCHANGED <<cache, fetch_log, error_log>>
    ELSE /\ cache' = (url :> html_content) @@ cache
         /\ fetch_log' = Append(fetch_log, url)
         /\ error_log' = IF html_content = None
                         THEN Append(error_log, FetchError(url))
                         ELSE error_log

\* ---------------------------------------------------------------------------
\* Pipeline Driver (run, lines 549-589)
\* ---------------------------------------------------------------------------
NoLists ==
    /\ href_values = <<>>
    /\ model_names = <<>>
    /\ model_repo = <<>>
    /\ model_addresses = <<>>
    /\ model_urls = <<>>
    /\ extract_model_cards = <<>>
    /\ scrape_github_links = <<>>
    /\ scrape_category_tags = <<>>
    /\ rows = <<>>

RunIdle ==
    /\ pc = "idle"
    /\ idx = 1
    /\ cache = [u \in {} |-> None]
    /\ fetch_log = <<>>
    /\ error_log = <<>>
    /\ planner_base_html = Unset
    /\ NoLists
    /\ saved = FALSE
    /\ raised = ""

Init ==
    /\ input = Unset
    /\ output = Unset
    /\ pc = "start"
    /\ idx = 1
    /\ cache = [u \in {} |-> None]
    /\ fetch_log = <<>>
    /\ error_log = <<>>
    /\ planner_base_html = Unset
    /\ NoLists
    /\ saved = FALSE
    /\ raised = ""

lists == <<href_values, model_names, model_repo, model_addresses, model_urls,
           extract_model_cards, scrape_github_links, scrape_category_tags, rows>>

\* lines 556-557: where run() goes after its own fetch of the base page
AfterBaseFetchAlways(base_html_content) == "plan"

AfterBaseFetch(base_html_content) ==
    IF base_html_content = None THEN "done" ELSE "plan"

\* lines 553-557
RunStart ==
    /\ pc = "start"
    /\ \E base_html_content \in Lookup(base_url) :
          /\ get_or_cache_html(base_url, base_html_content)
          /\ pc' = AfterBaseFetch(base_html_content)
    /\ UNCHANGED <<fvars, planner_base_html, idx, lists, saved, raised>>

\* line 560: the planner fetches the base page through a cache of its own
\* (line 147 passes {}), so it always calls fetch_html_content
Plan ==
    /\ pc = "plan"
    /\ \E base_html_content \in Responses(base_url) :
          LET planned == Planner(base_url, DefaultBatchSize, base_html_content)
              fetched == IF base_html_content = None
                         THEN Append(error_log, FetchError(base_url))
                         ELSE error_log
          IN  /\ fetch_log' = Append(fetch_log, base_url)
              /\ error_log' =
                    IF planned.error = "" THEN fetched
                    ELSE Append(fetched, [source |-> "generate_model_page_urls_with_pagination",
                                          about |-> planned.error])
              /\ planner_base_html' = base_html_content
              /\ href_values' = planned.href_values
    /\ pc' = "names"
    /\ idx' = 1
    /\ UNCHANGED <<fvars, cache, model_names, model_repo, model_addresses, model_urls,
                   extract_model_cards, scrape_github_links, scrape_category_tags,
                   rows, saved, raised>>

\* one iteration of the loop of scrape_model_names, lines 199-213
NamesStep ==
    /\ pc = "names"
    /\ idx <= Len(href_values)
    /\ \E response_text \in Lookup(href_values[idx]) :
          /\ get_or_cache_html(href_values[idx], response_text)
          /\ model_names' = IF response_text = None THEN model_names
                            ELSE model_names \o PageNames(response_text)
    /\ idx' = idx + 1
    /\ UNCHANGED <<fvars, planner_base_html, pc, href_values, model_repo, model_addresses, model_urls,
                   extract_model_cards, scrape_github_links, scrape_category_tags,
                   rows, saved, raised>>

\* one iteration of the loop of scrape_model_repositories, lines 232-246; the
\* IndexError of line 246 is caught nowhere and leaves run()
ReposStep ==
    /\ pc = "repos"
    /\ idx <= Len(href_values)
    /\ \E response_text \in Lookup(href_values[idx]) :
          /\ get_or_cache_html(href_values[idx], response_text)
          /\ IF response_text # None /\ PageRepoRaises(response_text)
             THEN /\ pc' = "raised"
                  /\ raised' = "IndexError"
                  /\ UNCHANGED <<idx, model_repo>>
             ELSE /\ model_repo' = IF response_text = None THEN model_repo
                                   ELSE model_repo \o PageRepos(response_text)
                  /\ idx' = idx + 1
                  /\ UNCHANGED <<pc, raised>>
    /\ UNCHANGED <<fvars, planner_base_html, href_values, model_names, model_addresses, model_urls,
                   extract_model_cards, scrape_github_links, scrape_category_tags,
                   rows, saved>>

\* one iteration of the loop of model_addresses, lines 267-280
AddressesStep ==
    /\ pc = "addresses"
    /\ idx <= Len(href_values)
    /\ \E response_text \in Lookup(href_values[idx]) :
          /\ get_or_cache_html(href_values[idx], response_text)
          /\ model_addresses' = IF response_text = None THEN model_addresses
                                ELSE model_addresses \o PageAddresses(response_text)
    /\ idx' = idx + 1
    /\ UNCHANGED <<fvars, planner_base_html, pc, href_values, model_names, model_repo, model_urls,
                   extract_model_cards, scrape_github_links, scrape_category_tags,
                   rows, saved, raised>>

\* one iteration of the loop of fetch_huggingface_model_urls, lines 299-310
UrlsStep ==
    /\ pc = "urls"
    /\ idx <= Len(href_values)
    /\ \E response_text \in Lookup(href_values[idx]) :
          /\ get_or_cache_html(href_values[idx], response_text)
          /\ model_urls' = IF response_text = None THEN model_urls
                           ELSE model_urls \o PageModelUrls(response_text)
    /\ idx' = idx + 1
    /\ UNCHANGED <<fvars, planner_base_html, pc, href_values, model_names, model_repo, model_addresses,
                   extract_model_cards, scrape_github_links, scrape_category_tags,
                   rows, saved, raised>>

\* one iteration of the loop of scrape_model_cards, lines 381-428
CardsStep ==
    /\ pc = "cards"
    /\ idx <= Len(model_urls)
    /\ \E response_text \in Lookup(model_urls[idx]) :
          /\ get_or_cache_html(model_urls[idx], response_text)
          /\ extract_model_cards' = IF response_text = None THEN extract_model_cards
                                    ELSE extract_model_cards \o PageCards(response_text)
    /\ idx' = idx + 1
    /\ UNCHANGED <<fvars, planner_base_html, pc, href_values, model_names, model_repo, model_addresses,
                   model_urls, scrape_github_links, scrape_category_tags,
                   rows, saved, raised>>

\* one iteration of the loop of scrape_github_links, lines 330-358
GithubStep ==
    /\ pc = "github"
    /\ idx <= Len(model_urls)
    /\ \E response_text \in Lookup(model_urls[idx]) :
          /\ get_or_cache_html(model_urls[idx], response_text)
          /\ scrape_github_links' =
                IF response_text = None THEN scrape_github_links
                ELSE Append(scrape_github_links, PageGithubLinks(response_text))
    /\ idx' = idx + 1
    /\ UNCHANGED <<fvars, planner_base_html, pc, href_values, model_names, model_repo, model_addresses,
                   model_urls, extract_model_cards, scrape_category_tags,
                   rows, saved, raised>>

\* one iteration of the loop of scrape_category_tags, lines 447-492
TagsStep ==
    /\ pc = "tags"
    /\ idx <= Len(model_urls)
    /\ \E response_text \in Lookup(model_urls[idx]) :
          /\ get_or_cache_html(model_urls[idx], response_text)
          /\ scrape_category_tags' =
                IF response_text = None THEN scrape_category_tags
                ELSE Append(scrape_category_tags, CategorizePage(response_text.a_tags))
    /\ idx' = idx + 1
    /\ UNCHANGED <<fvars, planner_base_html, pc, href_values, model_names, model_repo, model_addresses,
                   model_urls, extract_model_cards, scrape_github_links,
                   rows, saved, raised>>

ListingPasses == {"names", "repos", "addresses", "urls"}

DetailPasses == {"cards", "github", "tags"}

\* the statement of run() that follows a pass, lines 563-572
AfterPassInterleaved(pass) ==
    CASE pass = "names" -> "cards"
      [] pass = "cards" -> "repos"
      [] pass = "repos" -> "addresses"
      [] pass = "addresses" -> "urls"
      [] pass = "urls" -> "github"
      [] pass = "github" -> "tags"
      [] pass = "tags" -> "aggregate"

AfterPass(pass) ==
    CASE pass = "names" -> "repos"
      [] pass = "repos" -> "addresses"
      [] pass = "addresses" -> "urls"
      [] pass = "urls" -> "cards"
      [] pass = "cards" -> "github"
      [] pass = "github" -> "tags"
      [] pass = "tags" -> "aggregate"

\* the return of a pass whose loop is over (lines 215, 248, 282, 312, 360, 430, 494)
PassReturn ==
    /\ pc \in ListingPasses \cup DetailPasses
    /\ idx > Len(IF pc \in ListingPasses THEN href_values ELSE model_urls)
    /\ pc' = AfterPass(pc)
    /\ idx' = 1
    /\ UNCHANGED <<fvars, planner_base_html, cache, fetch_log, error_log, lists, saved, raised>>

\* lines 572-589; save_to_csv (lines 516-533) writes the table or logs the
\* exception of the write
Aggregate ==
    /\ pc = "aggregate"
    /\ rows' = Rows(model_names, model_repo, model_addresses, model_urls,
                    scrape_category_tags, scrape_github_links, extract_model_cards)
    /\ \E written \in BOOLEAN :
          /\ saved' = written
          /\ error_log' = IF written THEN error_log
                          ELSE Append(error_log, [source |-> "save_to_csv", about |-> "csv"])
    /\ pc' = "done"
    /\ UNCHANGED <<fvars, planner_base_html, idx, cache, fetch_log, href_values, model_names, model_repo,
                   model_addresses, model_urls, extract_model_cards,
                   scrape_github_links, scrape_category_tags, raised>>

Next ==
    \/ RunStart
    \/ Plan
    \/ NamesStep
    \/ ReposStep
    \/ AddressesStep
    \/ UrlsStep
    \/ CardsStep
    \/ GithubStep
    \/ TagsStep
    \/ PassReturn
    \/ Aggregate

Spec == Init /\ [][Next]_vars

\* ---------------------------------------------------------------------------
\* SpecLinks: the per-link derivations applied to links drawn over a small
\* alphabet
\* ---------------------------------------------------------------------------
HrefAlphabet == {"/", "a", "b"}

RECURSIVE StrsOfLen(_, _)
StrsOfLen(alphabet, n) ==
    IF n = 0 THEN {""}
    ELSE {s \o c : s \in StrsOfLen(alphabet, n - 1), c \in alphabet}

StrsUpTo(alphabet, n) == UNION {StrsOfLen(alphabet, k) : k \in 0..n}

Hrefs == StrsUpTo(HrefAlphabet, MaxHrefLen)

InitLinks ==
    /\ RunIdle
    /\ input \in Hrefs
    /\ output = Unset

ApplyName ==
    /\ output = Unset
    /\ output' = [kind |-> "name", value |-> ModelName(input)]
    /\ UNCHANGED <<input, rvars>>

ApplyRepo ==
    /\ output = Unset
    /\ output' = IF RepoRaises(input)
                 THEN [kind |-> "IndexError"]
                 ELSE [kind |-> "repo", value |-> ModelRepo(input)]
    /\ UNCHANGED <<input, rvars>>

NextLinks == ApplyName \/ ApplyRepo

SpecLinks == InitLinks /\ [][NextLinks]_vars

\* links without a '/' inside owner or name
Segments == StrsUpTo({"a", "b"}, MaxHrefLen)

\* C8: for a link /{owner}/{name} the repository is owner and the name is
\* name exactly; a link with fewer than two '/' separators gets the
\* single-space placeholder as its name.
C8_OwnerAndName ==
    /\ \A owner \in Segments : \A name \in Segments :
         input = "/" \o owner \o "/" \o name =>
            /\ output.kind = "name" => output.value = name
            /\ output.kind = "repo" => output.value = owner
            /\ output.kind # "IndexError"
    /\ (Count(input, "/") < 2 /\ output.kind = "name") => output.value = " "

C8_Witness ==
    /\ input = "/a/b"
    /\ output = [kind |-> "repo", value |-> "a"]
\* ---------------------------------------------------------------------------
\* SpecTags: the categorizer applied to the anchors of one detail page
\* ---------------------------------------------------------------------------
TagHrefs ==
    { "/models?pipeline_tag=text-generation",
      "/models?library=pytorch",
      "/models?language=en",
      "/models?other=foo",
      "/models?other=arxiv%3A1234",
      "/models?other=foo&x=arxiv%3A1",
      "/models?license=license%3Amit",
      "/models?license=mit",
      "/models?dataset=dataset%3Asquad",
      "https://huggingface.co/models?library=pytorch",
      "/alice/m1" }

TagTexts == {"t1", " t2\n"}

LicenseTexts ==
    { "MIT", "License: MIT", "\n License: MIT \n", "MIT License: X",
      "License: License: MIT", "Licen\nse: MIT" }

TagAnchors ==
    [has_href : {TRUE}, href : TagHrefs, text : TagTexts]
        \cup [has_href : {FALSE}, href : {""}, text : TagTexts]
        \cup [has_href : {TRUE}, href : {"/models?license=license%3Amit"},
              text : LicenseTexts]

InitTags ==
    /\ RunIdle
    /\ input \in SeqsUpTo(TagAnchors, MaxAnchors)
    /\ output = Unset

ApplyCategorize ==
    /\ output = Unset
    /\ output' = [kind |-> "tags", value |-> CategorizePage(input)]
    /\ UNCHANGED <<input, rvars>>

NextTags == ApplyCategorize

SpecTags == InitTags /\ [][NextTags]_vars

\* the table of the claim: href prefix, category
PrefixTable ==
    { <<"/models?pipeline_tag=", "Task">>,
      <<"/models?library=", "Library">>,
      <<"/models?language=", "Language">>,
      <<"/models?license=license%3A", "License">>,
      <<"/models?dataset=dataset%3A", "Dataset">> }

\* the categories the claim gives an href
ClaimedCategories(href) ==
    {row[2] : row \in {r \in PrefixTable : StartsWith(href, r[1])}}
        \cup (IF StartsWith(href, "/models?other=") /\ Contains(href, "=arxiv%")
              THEN {"Arxiv"} ELSE {})
        \cup (IF StartsWith(href, "/models?other=") /\ ~Contains(href, "=arxiv%")
              THEN {"Others"} ELSE {})

\* the texts of the anchors the claim puts in category c, in document order
RECURSIVE ClaimedTexts(_, _)
ClaimedTexts(anchors, c) ==
    IF anchors = <<>> THEN <<>>
    ELSE (IF c \in ClaimedCategories(AnchorHref(Head(anchors)))
          THEN <<TagText(c, Head(anchors).text)>> ELSE <<>>)
         \o ClaimedTexts(Tail(anchors), c)

\* C9: every anchor lands in at most one of the seven categories, the one its
\* href prefix names (Arxiv or Others for '/models?other=' by '=arxiv%'), an
\* anchor matching no prefix lands in none, and each category lists its
\* anchors in document order.
C9_CategoryByPrefix ==
    output.kind = "tags" =>
        /\ DOMAIN output.value = Categories
        /\ \A i \in 1..Len(input) :
              Cardinality(ClaimedCategories(AnchorHref(input[i]))) <= 1
        /\ \A c \in Categories : output.value[c] = ClaimedTexts(input, c)

C9_Witness ==
    /\ output.kind = "tags"
    /\ Len(input) = 2
    /\ input[1].href = "/models?other=arxiv%3A1234"
    /\ input[2].href = "/models?other=foo"
    /\ output.value["Arxiv"] = <<TagText("Arxiv", input[1].text)>>
    /\ output.value["Others"] = <<TagText("Others", input[2].text)>>

\* the text of the claim for a License anchor: the one-line trimmed text,
\* without its 'License: ' label when the text starts with it
LeadingLabelRemoved(text) ==
    LET oneline == RemoveAll(Strip(text), "\n")
    IN  IF StartsWith(oneline, "License: ")
        THEN SubSeq(oneline, Len("License: ") + 1, Len(oneline))
        ELSE oneline

\* the License anchors of a page, in document order
RECURSIVE LicenseAnchors(_)
LicenseAnchors(anchors) ==
    IF anchors = <<>> THEN <<>>
    ELSE (IF Heading(AnchorHref(Head(anchors))) = "License"
          THEN <<Head(anchors)>> ELSE <<>>)
         \o LicenseAnchors(Tail(anchors))

\* C10: the text recorded for a License anchor is its trimmed text with only
\* a leading 'License: ' label removed.
C10_OnlyLeadingLabelRemoved ==
    output.kind = "tags" =>
        LET lic == LicenseAnchors(input)
        IN  /\ Len(output.value["License"]) = Len(lic)
            /\ \A i \in 1..Len(lic) :
                  output.value["License"][i] = LeadingLabelRemoved(lic[i].text)
\* ---------------------------------------------------------------------------
\* SpecPlanner: the planner applied to one outcome of the base page fetch
\* ---------------------------------------------------------------------------
PaginationHrefs ==
    {PaginationHref(P) : P \in 0..MaxP}
        \cup { "/models?sort=trending", "/models", "/models?p=&sort=trending",
               "/models?p=x&sort=trending", "/models?p=1x", "/models?p=-1",
               "/models?sort=trending&p=2" }

LiElements ==
    {PaginationItem(href) : href \in PaginationHrefs}
        \cup { [has_a |-> FALSE, has_href |-> FALSE, href |-> ""],
               [has_a |-> TRUE, has_href |-> FALSE, href |-> ""] }

InitPlanner ==
    /\ RunIdle
    /\ input \in [page : {None} \cup {PaginationPage(li) : li \in SeqsUpTo(LiElements, MaxItems)},
                  batch_size : 1..MaxBatch]
    /\ output = Unset

ApplyPlanner ==
    /\ output = Unset
    /\ output' = [kind |-> "planned",
                  value |-> Planner(base_url, input.batch_size, input.page)]
    /\ UNCHANGED <<input, rvars>>

NextPlanner == ApplyPlanner

SpecPlanner == InitPlanner /\ [][NextPlanner]_vars

\* the last pagination item of the drawn page links to href
LastLinkIs(href) ==
    /\ input.page # None
    /\ input.page.li # <<>>
    /\ Last(input.page.li) = [has_a |-> TRUE, has_href |-> TRUE, href |-> href]

\* C4: when the last pagination item links to page P >= 0, the planner builds
\* the URLs of pages 0..P in ascending order whatever batch_size >= 1 is, and
\* returns the first 3 of them (all P+1 when P < 2).
C4_PagesZeroToP ==
    output.kind = "planned" =>
        \A P \in 0..MaxP :
            LastLinkIs(PaginationHref(P)) =>
                /\ output.value.all =
                     [i \in 1..(P + 1) |->
                        "https://huggingface.co/models?p=" \o ToString(i - 1)
                            \o "&sort=trending"]
                /\ output.value.href_values =
                     SubSeq(output.value.all, 1, IF P < 2 THEN P + 1 ELSE 3)
                /\ output.value.error = ""

C4_Witness ==
    /\ output.kind = "planned"
    /\ LastLinkIs(PaginationHref(7))
    /\ input.batch_size = 3
    /\ Len(output.value.all) = 8
    /\ output.value.href_values =
         << "https://huggingface.co/models?p=0&sort=trending",
            "https://huggingface.co/models?p=1&sort=trending",
            "https://huggingface.co/models?p=2&sort=trending" >>

\* the page-number parameter of the last link is absent
PAbsent == \E h \in {"/models?sort=trending", "/models", "/models?p=&sort=trending"} :
               LastLinkIs(h)

\* the page-number parameter of the last link is not an integer
PNotInteger == \E h \in {"/models?p=x&sort=trending", "/models?p=1x"} : LastLinkIs(h)

\* the failures other than those of the page-number parameter
NoLastLink ==
    \/ input.page = None
    \/ input.page.li = <<>>
    \/ ~Last(input.page.li).has_a
    \/ ~Last(input.page.li).has_href

\* C5 as stated: every parse failure, an absent page-number parameter
\* included, makes the planner return the empty list.
C5_EmptyOnEveryFailure ==
    (output.kind = "planned" /\ (NoLastLink \/ PNotInteger \/ PAbsent)) =>
        output.value.href_values = <<>>

\* C5 amended: the planner returns the empty list when the fetch fails, when
\* there is no pagination item, when the last item has no destination link
\* and when the page-number parameter is not an integer; an absent parameter
\* counts as page 0 and the planner returns the one URL of page 0.
C5_EmptyOnFailureZeroOnAbsent ==
    output.kind = "planned" =>
        /\ (NoLastLink \/ PNotInteger) => output.value.href_values = <<>>
        /\ PAbsent =>
             /\ output.value.href_values =
                  <<"https://huggingface.co/models?p=0&sort=trending">>
             /\ output.value.error = ""
        /\ (input.page # None /\ (NoLastLink \/ PNotInteger)) =>
              output.value.error # ""

C5_Witness ==
    /\ output.kind = "planned"
    /\ LastLinkIs("/models?p=x&sort=trending")
    /\ output.value.href_values = <<>>
    /\ output.value.error = "ValueError"
\* ---------------------------------------------------------------------------
\* Properties of a run
\* ---------------------------------------------------------------------------
\* C1: within one run no URL, the base listing URL included, is handed to the
\* fetch collaborator twice.
C1_AtMostOneFetchPerUrl ==
    \A a \in 1..Len(fetch_log) : \A b \in 1..Len(fetch_log) :
        a # b => fetch_log[a] # fetch_log[b]

HasHref(element) == element.has_href

\* the destinations of the model-link blocks of one page, in document order
DocumentOrderLinks(page) ==
    LET with_href == SelectSeq(page.blocks, HasHref)
    IN  [k \in 1..Len(with_href) |-> with_href[k].href]

ListingUrl(n) == "https://huggingface.co/models?p=" \o ToString(n) \o "&sort=trending"

\* the links of the listing pages n, n+1, ... that the run holds, page by page
RECURSIVE DiscoveredFrom(_)
DiscoveredFrom(n) ==
    IF n >= ReturnedPages THEN <<>>
    ELSE (IF ListingUrl(n) \in DOMAIN cache /\ cache[ListingUrl(n)] # None
          THEN DocumentOrderLinks(cache[ListingUrl(n)]) ELSE <<>>)
         \o DiscoveredFrom(n + 1)

\* the positions of the listing URLs in the fetch log follow the page index
ListingFetchesAscending ==
    \A a \in 1..Len(fetch_log) : \A b \in 1..Len(fetch_log) :
        \A m \in 0..(ReturnedPages - 1) : \A n \in 0..(ReturnedPages - 1) :
            (fetch_log[a] = ListingUrl(m) /\ fetch_log[b] = ListingUrl(n) /\ a < b)
                => m < n

\* C2: the rows are in discovery order: listing pages in ascending page index,
\* within a page the links in document order, duplicates kept and blocks
\* without a destination left out; row k carries the name, repository,
\* address and URL of the k-th link discovered.
C2_RowsInDiscoveryOrder ==
    pc = "done" =>
        /\ \A k \in 1..Len(href_values) : href_values[k] = ListingUrl(k - 1)
        /\ ListingFetchesAscending
        /\ Len(rows) <= Len(DiscoveredFrom(0))
        /\ \A k \in 1..Len(rows) :
              LET link == DiscoveredFrom(0)[k]
              IN  /\ rows[k].address = link
                  /\ rows[k].url = "https://huggingface.co" \o link
                  /\ rows[k].name = ModelName(link)
                  /\ rows[k].repo = ModelRepo(link)

C2_Witness ==
    /\ pc = "done"
    /\ Len(href_values) >= 2
    /\ cache[ListingUrl(0)] # None
    /\ cache[ListingUrl(0)].blocks =
         <<LinkElement("/alice/m1"), NoHrefElement, LinkElement("/alice/m1")>>
    /\ cache[ListingUrl(1)] = ListingPage(<<LinkElement("/bob/m2")>>)
    /\ Len(rows) = 3
    /\ rows[2].address = "/alice/m1"
    /\ rows[3].address = "/bob/m2"

PerFieldLengths ==
    { Len(model_names), Len(model_repo), Len(model_addresses), Len(model_urls),
      Len(scrape_category_tags), Len(scrape_github_links), Len(extract_model_cards) }

\* C3: the index column of the rows is 1, 2, ..., R without gap or repeat, and
\* R is the common length K of the per-field sequences when they all have
\* the same length.
C3_IndexContiguous ==
    pc = "done" =>
        /\ \A k \in 1..Len(rows) : rows[k].index = k
        /\ DOMAIN rows = 1..Len(rows)
        /\ \A K \in 0..Len(model_names) : PerFieldLengths = {K} => Len(rows) = K

C3_Witness ==
    /\ pc = "done"
    /\ saved
    /\ PerFieldLengths = {2}
    /\ Len(rows) = 2
    /\ rows[2].index = 2

\* the fetch of the base page failed: run's own (its None is cached) or the
\* planner's
BaseFetchFailed ==
    \/ base_url \in DOMAIN cache /\ cache[base_url] = None
    \/ planner_base_html = None

\* C6: when the fetch of the base listing page fails, the planner returns the
\* empty list, the output has no data row, the failure is logged as an error
\* and no exception leaves run().
C6_BaseFetchFailure ==
    BaseFetchFailed =>
        /\ FetchError(base_url) \in Range(error_log)
        /\ href_values = <<>>
        /\ model_names = <<>> /\ model_urls = <<>>
        /\ rows = <<>>
        /\ raised = ""
        /\ pc # "raised"

C6_Witness ==
    /\ pc = "done"
    /\ planner_base_html = None
    /\ saved
    /\ rows = <<>>
    /\ fetch_log = <<base_url, base_url>>

\* C7: no failure on one URL leaves an extraction pass as an exception.
C7_NoPassRaises == raised = "" /\ pc # "raised"
\* ---------------------------------------------------------------------------
\* SpecCache: a sequence of get_or_cache_html calls on one cache
\* ---------------------------------------------------------------------------
CacheUrls == {base_url, Origin \o "/alice/m1", Origin \o "/bob/m2"}

InitCache ==
    /\ RunIdle
    /\ input = Unset
    /\ output = Unset

\* one call get_or_cache_html(url, cache); idx counts the calls
CacheCall ==
    /\ idx <= MaxCalls
    /\ \E url \in CacheUrls : \E html_content \in Lookup(url) :
          /\ get_or_cache_html(url, html_content)
          /\ input' = url
          /\ output' = [kind |-> "returned", value |-> html_content]
    /\ idx' = idx + 1
    /\ UNCHANGED <<pc, planner_base_html, lists, saved, raised>>

NextCache == CacheCall

SpecCache == InitCache /\ [][NextCache]_vars

\* C11: a call for a URL that is a key returns the stored value, the absent
\* marker included, without a fetch; a call for a URL that is no key fetches
\* once, stores what the fetch gave under that URL and returns it; no entry
\* is removed or overwritten.
C11_CacheContract ==
    [][ /\ \A u \in DOMAIN cache : u \in DOMAIN cache' /\ cache'[u] = cache[u]
        /\ input' \in DOMAIN cache =>
              /\ output'.value = cache[input']
              /\ fetch_log' = fetch_log
              /\ cache' = cache
        /\ input' \notin DOMAIN cache =>
              /\ fetch_log' = Append(fetch_log, input')
              /\ DOMAIN cache' = DOMAIN cache \cup {input'}
              /\ cache'[input'] = output'.value
      ]_vars

\* a failed fetch was stored and a later call for the same URL returned it
C11_Witness ==
    /\ idx = 3
    /\ input = base_url
    /\ output = [kind |-> "returned", value |-> None]
    /\ fetch_log = <<base_url>>
    /\ cache[base_url] = None
\* ---------------------------------------------------------------------------
\* Alignment of the rows
\* ---------------------------------------------------------------------------
\* the detail page of the j-th link was reached: every detail pass keeps a value
ReachedAt(j) == model_urls[j] \in DOMAIN cache /\ cache[model_urls[j]] # None

\* the detail page of the j-th link has the <main> element: the description
\* pass keeps a value
CardAt(j) == ReachedAt(j) /\ cache[model_urls[j]].main.present

LinkPositions == [j \in 1..Len(model_urls) |-> j]

\* the positions of the links whose value a pass retained, in order
CardPositions == SelectSeq(LinkPositions, CardAt)

ReachedPositions == SelectSeq(LinkPositions, ReachedAt)

\* the cleaned card text the site serves for a model URL
CardTextOf(url) == "card of " \o url \o " usage"

\* rows are as many as the shortest sequence; row k pairs the name of the
\* k-th link with the k-th value each detail pass retained
PositionalZip ==
    /\ Len(rows) = MinOf(PerFieldLengths)
    /\ Len(extract_model_cards) = Len(CardPositions)
    /\ Len(scrape_category_tags) = Len(ReachedPositions)
    /\ Len(scrape_github_links) = Len(ReachedPositions)
    /\ \A k \in 1..Len(rows) :
          /\ rows[k].name = ModelName(model_addresses[k])
          /\ rows[k].url = model_urls[k]
          /\ rows[k].description = CardTextOf(model_urls[CardPositions[k]])
          /\ rows[k].githubLinks =
                PageGithubLinks(cache[model_urls[ReachedPositions[k]]])
          /\ rows[k].Library =
                Join(CategorizePage(cache[model_urls[ReachedPositions[k]]].a_tags)["Library"], ", ")

\* C12 as stated: the rows are zipped positionally, as many as the shortest
\* sequence, and a value that a skipped URL shifted into row k belongs to a
\* model other than the one of the k-th link.
C12_ShiftedValueOfOtherModel ==
    pc = "done" =>
        /\ PositionalZip
        /\ \A k \in 1..Len(rows) :
              /\ CardPositions[k] # k => model_urls[CardPositions[k]] # model_urls[k]
              /\ ReachedPositions[k] # k => model_urls[ReachedPositions[k]] # model_urls[k]

\* C12 amended: the rows are zipped positionally, as many as the shortest
\* sequence, and a value that a skipped URL shifted into row k comes from a
\* later link of the list, which is another model unless that link repeats
\* the k-th link.
C12_ShiftedValueOfLaterLink ==
    pc = "done" =>
        /\ PositionalZip
        /\ \A k \in 1..Len(rows) :
              /\ CardPositions[k] >= k
              /\ ReachedPositions[k] >= k
              /\ (\E j \in 1..k : ~CardAt(j)) => CardPositions[k] > k
              /\ (\E j \in 1..k : ~ReachedAt(j)) => ReachedPositions[k] > k

\* the description pass skipped the first model, so the first row pairs its
\* name with the card of the second
C12_Witness ==
    /\ pc = "done"
    /\ model_addresses = <<"/bob/m2", "/alice/m1">>
    /\ cache[Origin \o "/bob/m2"] = BarePage
    /\ Len(rows) = 1
    /\ rows[1].name = "m2"
    /\ rows[1].description = "card of https://huggingface.co/alice/m1 usage"
\* ---------------------------------------------------------------------------
\* Order of the fetches
\* ---------------------------------------------------------------------------
ListingUrls == {base_url} \cup {ListingUrl(n) : n \in 0..(ReturnedPages - 1)}

\* 1 while run() works on listing pages, 2 while it works on detail pages,
\* 3 afterwards
Stage(at) ==
    IF at \in {"start", "plan"} \cup ListingPasses THEN 1
    ELSE IF at \in DetailPasses THEN 2
    ELSE 3

\* no fetch of a listing page follows a fetch of a detail page
ListingBeforeDetail ==
    \A a \in 1..Len(fetch_log) : \A b \in 1..Len(fetch_log) :
        (a < b /\ fetch_log[b] \in ListingUrls) => fetch_log[a] \in ListingUrls

\* C13: a step of run() makes at most one fetch, which starts and completes
\* within the step, and every fetch of a listing page comes before the first
\* fetch of a detail page.
C13_SequentialFetches ==
    [][ /\ Len(fetch_log') <= Len(fetch_log) + 1
        /\ SubSeq(fetch_log', 1, Len(fetch_log)) = fetch_log
        /\ Stage(pc') >= Stage(pc)
        /\ fetch_log' # fetch_log =>
              /\ Stage(pc) = 1 => Last(fetch_log') \in ListingUrls
              /\ Stage(pc) = 2 => /\ Last(fetch_log') = model_urls[idx]
                                  /\ Last(fetch_log') \notin ListingUrls
              /\ Stage(pc) # 3
        /\ ListingBeforeDetail'
      ]_vars

C13_Witness ==
    /\ pc \in DetailPasses
    /\ Len(fetch_log) = 5
    /\ fetch_log[3] = ListingUrl(0)
    /\ fetch_log[4] = ListingUrl(1)
    /\ fetch_log[5] = Origin \o "/alice/m1"

CachedPasses == {"repos", "addresses", "urls", "github", "tags"}

\* C14: only scrape_model_names and scrape_model_cards invoke the fetch
\* collaborator; the later passes over the same list find every URL in the
\* cache, fetch nothing and leave the cache as it is, so the passes over one
\* list keep a value for the same URLs.
C14_LaterPassesServedFromCache ==
    [][ /\ pc \in CachedPasses =>
              /\ fetch_log' = fetch_log
              /\ cache' = cache
              /\ idx <= Len(IF pc \in ListingPasses THEN href_values ELSE model_urls) =>
                    (IF pc \in ListingPasses THEN href_values ELSE model_urls)[idx]
                        \in DOMAIN cache
        /\ (fetch_log' # fetch_log /\ pc \in ListingPasses \cup DetailPasses) =>
              pc \in {"names", "cards"}
        /\ pc' = "aggregate" =>
              /\ Len(model_names') = Len(model_addresses')
              /\ Len(model_repo') = Len(model_addresses')
              /\ Len(model_urls') = Len(model_addresses')
              /\ Len(scrape_github_links') = Len(scrape_category_tags')
              /\ Len(extract_model_cards') <= Len(scrape_category_tags')
      ]_vars

\* the tags pass met a model page whose failed fetch the cards pass had cached
C14_Witness ==
    /\ pc = "tags"
    /\ idx = 2
    /\ Len(model_urls) >= 1
    /\ cache[model_urls[1]] = None
    /\ scrape_category_tags = <<>>
    /\ scrape_github_links = <<>>
====
